---------------------------- MODULE Spec2Model ----------------------------
(***************************************************************************)
(* Model of download.py: a podcast downloader.  One run of main() imports  *)
(* an OPML list (optionally), refreshes the stale feeds of the TinyDB      *)
(* table "feeds" and downloads the newest episodes of every stored feed.   *)
(* The table and the output directory persist from one run to the next.    *)
(*                                                                         *)
(* Time is counted in ticks of half a day.  Strings that the code edits    *)
(* character by character (feed titles) are sequences of characters.       *)
(***************************************************************************)
EXTENDS Integers, Sequences, FiniteSets, TLC

VARIABLES
    feeds,          \* the TinyDB table "feeds": documents in doc-id order
    files,          \* paths <<directory, episode title>> present on disk
    partial,        \* the paths whose file was opened but not written fully
    dirs,           \* directories present under the output directory
    now,            \* datetime.utcnow(), in ticks
    pc,             \* where the run is
    file,           \* import_opml's parameter `file`
    force_updates,  \* update_feeds' parameter
    unfresh_feeds,  \* update_feeds' local: the candidates, a snapshot
    ri,             \* update_feeds' loop position in unfresh_feeds
    all,            \* main's feeds.all() snapshot iterated by the download loop
    max_episodes,   \* args.max_episodes, download_feed's `limit`
    fi,             \* main's loop position in `all`
    ei,             \* download_feed's loop position in the feed's entries
    li,             \* download_episode's loop position in the entry's links
    attempt,        \* attempts made by the @retry wrapper of the running call
    kinds,          \* the kinds of failure those attempts met
    lastCall,       \* how the last finished parse_feed/download_file call ended
    exc,            \* the exception that ended the run, or "none"
    files0,         \* the files present when the running download_feed began
    requests,       \* <<fi, ei, li>> of every HTTP request download_feed issued
    diag            \* the failure messages printed for the running or last call

vars == <<feeds, files, partial, dirs, now, pc, file, force_updates,
          unfresh_feeds, ri, all, max_episodes, fi, ei, li, attempt, kinds,
          lastCall, exc, files0, requests, diag>>

-----------------------------------------------------------------------------
(* Bounds of the model *)

\* the clock stops at this tick (4 ticks = 2 days)
MaxNow == 4
\* --max-episodes is drawn from 0..MaxLimit
MaxLimit == 2

(* Program constants *)

\* @retry(stop=stop_after_attempt(3)) on parse_feed and download_file
stop_after_attempt == 3
\* update_feeds(feeds, max_entries_per_feed=5, ...), never overridden by main
max_entries_per_feed == 5
\* timedelta.days counts whole days: 2 ticks of 12 hours
TicksPerDay == 2
\* "last_updated": None
None == -1

Min(a, b) == IF a < b THEN a ELSE b

-----------------------------------------------------------------------------
(* The world outside the program: OPML documents and remote feeds *)

NoFile == "(no --import-opml)"
DefaultOpml == "podcasts_opml.xml"
OtherOpml == "subscriptions.opml"

TitleAB == <<"a", "/", "b">>
TitleC == <<"c">>

\* what listparser.parse(path)["feeds"] yields for each OPML document on disk
OpmlDocs(path) ==
    IF path = DefaultOpml
    THEN << [title |-> TitleAB, url |-> "u1"],
            [title |-> TitleC,  url |-> "u2"],
            [title |-> TitleAB, url |-> "u3"] >>
    ELSE IF path = OtherOpml
    THEN << [title |-> TitleC, url |-> "u2"] >>
    ELSE << >>

OpmlPaths == {DefaultOpml, OtherOpml}

LinkHtml == [href |-> "page", type |-> "text/html"]
Enclosure == [href |-> "mp3", type |-> "audio/mpeg"]
TitledAudio == [href |-> "alt", type |-> "audio/mpeg", title |-> "Alt"]

Entry(t, ls) == [title |-> t, links |-> ls]

DocLong ==
    << Entry("e1", <<LinkHtml, TitledAudio>>),
       Entry("e2", <<Enclosure>>),
       Entry("e3", <<LinkHtml>>),
       Entry("e4", <<Enclosure>>),
       Entry("e5", <<Enclosure>>),
       Entry("e6", <<Enclosure>>) >>

DocShort ==
    << Entry("e3", <<LinkHtml>>),
       Entry("e2", <<TitledAudio, Enclosure>>) >>

DocOne == << Entry("e1", <<Enclosure>>) >>

\* the documents feedparser.parse(url) may return for a URL
RemoteDocs(url) ==
    IF url = "u2" THEN {DocOne, << >>} ELSE {DocLong, DocShort}

-----------------------------------------------------------------------------
(* Pure helpers *)

\* str.replace("/", "_") on a title
Replace(t) == [i \in 1..Len(t) |-> IF t[i] = "/" THEN "_" ELSE t[i]]

\* feed_dir = out_dir / feed["title"].replace("/", "_")
feed_dir(feed) == Replace(feed.title)

\* download_path = dir / f"{entry['title']}.mp3"
download_path(dir, entry) == <<dir, entry.title>>

\* mutant of exists: the existence check always answers no
exists_never(path) == FALSE

\* mutant of exists: a truncated file does not count
exists_complete(path) == path \in files \ partial

\* download_path.exists()
exists(path) == path \in files

\* timedelta.days: whole days, rounded down
days(delta) == delta \div TicksPerDay

\* older_than_1_day(dt), evaluated at utcnow() = now
older_than_1_day(dt) == dt = None \/ days(now - dt) > 1

\* mutant of islice: the limit is dropped
islice_unbounded(seq, limit) == seq

\* islice(seq, 0, limit) and seq[:limit], for limit >= 0
islice(seq, limit) == SubSeq(seq, 1, Min(limit, Len(seq)))

\* mutant of is_audio: every link counts as audio
is_audio_any(link) == TRUE

\* link["type"] in ["audio/mpeg"]
is_audio(link) == link.type \in {"audio/mpeg"}

\* the next position >= from of the links loop at which download_file is called
RECURSIVE next_audio(_, _)
next_audio(links, from) ==
    IF from > Len(links) THEN Len(links) + 1
    ELSE IF is_audio(links[from]) THEN from
    ELSE next_audio(links, from + 1)

-----------------------------------------------------------------------------
(* The TinyDB table *)

\* feeds.search(Feed.last_updated.test(older_than_1_day))
search_unfresh(table) ==
    SelectSeq(table, LAMBDA doc : older_than_1_day(doc.last_updated))

\* the candidates update_feeds selects
select_feeds(table, force) == IF force THEN table ELSE search_unfresh(table)

\* mutant of update: last_updated is left as it was
update_keeps_stamp(table, entries, stamp, title) ==
    [i \in 1..Len(table) |->
        IF table[i].title = title
        THEN [table[i] EXCEPT !.entries = entries]
        ELSE table[i]]

\* mutant of update: the title condition is dropped
update_all(table, entries, stamp, title) ==
    [i \in 1..Len(table) |->
        [table[i] EXCEPT !.entries = entries, !.last_updated = stamp]]

\* feeds.update({"entries": ..., "last_updated": ...}, Feed.title == title)
update(table, entries, stamp, title) ==
    [i \in 1..Len(table) |->
        IF table[i].title = title
        THEN [table[i] EXCEPT !.entries = entries, !.last_updated = stamp]
        ELSE table[i]]

\* mutant of upsert: the document is inserted without looking for a match
upsert_always_append(table, feed) == Append(table, feed)

\* mutant of upsert: a matching document keeps its entries and last_updated
upsert_keep(table, feed) ==
    IF \E i \in 1..Len(table) : table[i].title = feed.title
    THEN [i \in 1..Len(table) |->
            IF table[i].title = feed.title
            THEN [table[i] EXCEPT !.url = feed.url]
            ELSE table[i]]
    ELSE Append(table, feed)

\* feeds.upsert(feed, Query()["title"] == feed["title"]): every matching
\* document takes the fields of feed; with no match feed is inserted
upsert(table, feed) ==
    IF \E i \in 1..Len(table) : table[i].title = feed.title
    THEN [i \in 1..Len(table) |->
            IF table[i].title = feed.title
            THEN [table[i] EXCEPT !.title = feed.title, !.url = feed.url,
                                  !.entries = feed.entries,
                                  !.last_updated = feed.last_updated]
            ELSE table[i]]
    ELSE Append(table, feed)

\* parse_opml(file)
parse_opml(path) ==
    [i \in 1..Len(OpmlDocs(path)) |->
        [title |-> OpmlDocs(path)[i].title, url |-> OpmlDocs(path)[i].url,
         entries |-> << >>, last_updated |-> None]]

RECURSIVE upsert_all(_, _)
upsert_all(table, opml_feeds) ==
    IF opml_feeds = << >> THEN table
    ELSE upsert_all(upsert(table, Head(opml_feeds)), Tail(opml_feeds))

\* the document import_opml parses: the literal path, whatever `file` is
opml_source(f) == DefaultOpml

\* import_opml(feeds, file)
import_opml(table, f) == upsert_all(table, parse_opml(opml_source(f)))

\* mutant of truncate: one entry too many is kept
truncate_off_by_one(entries) == islice(entries, max_entries_per_feed + 1)

\* the entries update_feeds stores for a fetched document
truncate(entries) == islice(entries, max_entries_per_feed)

-----------------------------------------------------------------------------
(* State *)

\* no parse_feed/download_file call has ended since the last step of the loops
NoCall ==
    [fn |-> "none", attempts |-> 0, result |-> "none", kinds |-> {},
     value |-> << >>]

Init ==
    /\ feeds = << >>
    /\ files = {}
    /\ partial = {}
    /\ dirs = {}
    /\ now = 0
    /\ pc = "idle"
    /\ file = NoFile
    /\ force_updates = FALSE
    /\ unfresh_feeds = << >>
    /\ ri = 0
    /\ all = << >>
    /\ max_episodes = 0
    /\ fi = 0
    /\ ei = 0
    /\ li = 0
    /\ attempt = 0
    /\ kinds = {}
    /\ lastCall = NoCall
    /\ exc = "none"
    /\ files0 = {}
    /\ requests = {}
    /\ diag = {}

disk == <<files, partial, dirs>>
refresh_frame == <<force_updates, unfresh_feeds, ri>>
download_frame == <<all, max_episodes, fi, ei, li, files0, requests>>
retry_frame == <<attempt, kinds, lastCall, diag>>

-----------------------------------------------------------------------------
(* main: a new process starts, some time after the last one ended *)

Main ==
    /\ pc \in {"idle", "done", "aborted"}
    /\ \E d \in 0..(MaxNow - now), f \in OpmlPaths \cup {NoFile} :
        /\ now' = now + d
        /\ file' = f
        /\ pc' = IF f # NoFile THEN "import_opml" ELSE "update_feeds"
    /\ force_updates' = FALSE
    /\ unfresh_feeds' = << >>
    /\ ri' = 0
    /\ all' = << >>
    /\ max_episodes' = 0
    /\ fi' = 0
    /\ ei' = 0
    /\ li' = 0
    /\ attempt' = 0
    /\ kinds' = {}
    /\ lastCall' = NoCall
    /\ exc' = "none"
    /\ files0' = {}
    /\ requests' = {}
    /\ diag' = {}
    /\ UNCHANGED <<feeds, disk>>

\* if args.import_opml: import_opml(feeds, args.import_opml)
ImportOpml ==
    /\ pc = "import_opml"
    /\ feeds' = import_opml(feeds, file)
    /\ pc' = "update_feeds"
    /\ UNCHANGED <<disk, now, file, refresh_frame, download_frame,
                   retry_frame, exc>>

-----------------------------------------------------------------------------
(* update_feeds *)

\* update_feeds is entered: the candidates are selected
UpdateFeeds ==
    /\ pc = "update_feeds"
    /\ \E force \in BOOLEAN :
        /\ force_updates' = force
        /\ unfresh_feeds' = select_feeds(feeds, force)
    /\ ri' = 1
    /\ attempt' = 0
    /\ kinds' = {}
    /\ lastCall' = NoCall
    /\ diag' = {}
    /\ file' = NoFile
    /\ pc' = "parse_feed"
    /\ UNCHANGED <<feeds, disk, now, download_frame, exc>>

\* one attempt of parse_feed(feed["url"]) raises
ParseFeedRaise ==
    /\ pc = "parse_feed"
    /\ ri <= Len(unfresh_feeds)
    /\ IF attempt + 1 >= stop_after_attempt
       THEN \* RetryError: nothing in update_feeds or main catches it
            /\ lastCall' = [fn |-> "parse_feed", attempts |-> attempt + 1,
                            result |-> "RetryError",
                            kinds |-> kinds \cup {"raise"}, value |-> << >>]
            /\ attempt' = 0
            /\ kinds' = {}
            /\ exc' = "RetryError"
            /\ pc' = "aborted"
       ELSE /\ attempt' = attempt + 1
            /\ kinds' = kinds \cup {"raise"}
            /\ lastCall' = NoCall
            /\ UNCHANGED <<exc, pc>>
    /\ UNCHANGED <<feeds, disk, now, file, refresh_frame, download_frame, diag>>

\* one attempt of parse_feed returns a document; its first entries and the
\* time are stored under the feed's title
ParseFeedReturn ==
    /\ pc = "parse_feed"
    /\ ri <= Len(unfresh_feeds)
    /\ \E doc \in RemoteDocs(unfresh_feeds[ri].url) :
        /\ feeds' = update(feeds, truncate(doc), now, unfresh_feeds[ri].title)
        /\ lastCall' = [fn |-> "parse_feed", attempts |-> attempt + 1,
                        result |-> "ok", kinds |-> kinds, value |-> doc]
    /\ attempt' = 0
    /\ kinds' = {}
    /\ ri' = ri + 1
    /\ UNCHANGED <<disk, now, pc, file, force_updates, unfresh_feeds,
                   download_frame, exc, diag>>

\* mutant of feeds_all: the records as they were before any refresh
feeds_all_unrefreshed(table) ==
    [i \in 1..Len(table) |-> [table[i] EXCEPT !.entries = << >>]]

\* feeds.all(): the records of the table, in stored order
feeds_all(table) == table

\* update_feeds returns; main takes feeds.all() and starts the download loop
UpdateFeedsReturn ==
    /\ pc = "parse_feed"
    /\ ri > Len(unfresh_feeds)
    /\ all' = feeds_all(feeds)
    /\ \E m \in 0..MaxLimit : max_episodes' = m
    /\ fi' = 1
    /\ force_updates' = FALSE
    /\ unfresh_feeds' = << >>
    /\ ri' = 0
    /\ lastCall' = NoCall
    /\ diag' = {}
    /\ pc' = "download_feed"
    /\ UNCHANGED <<feeds, disk, now, file, ei, li, files0, requests,
                   attempt, kinds, exc>>

-----------------------------------------------------------------------------
(* download_feed, download_episode, download_file *)

cur_feed == all[fi]
\* islice(feed["entries"], 0, limit)
considered == islice(cur_feed.entries, max_episodes)
cur_entry == cur_feed.entries[ei]
cur_link == cur_entry.links[li]
cur_path == download_path(feed_dir(cur_feed), cur_entry)

\* download_feed(feed, args.output_dir, args.max_episodes) is entered: the
\* feed's directory is made if absent
DownloadFeed ==
    /\ pc = "download_feed"
    /\ fi <= Len(all)
    /\ dirs' = dirs \cup {feed_dir(cur_feed)}
    /\ files0' = files
    /\ requests' = {}
    /\ ei' = 1
    /\ li' = 0
    /\ lastCall' = NoCall
    /\ diag' = {}
    /\ pc' = "download_episode"
    /\ UNCHANGED <<feeds, files, partial, now, file, refresh_frame, all,
                   max_episodes, fi, attempt, kinds, exc>>

\* download_feed's loop is over: main goes on to the next feed
DownloadFeedReturn ==
    /\ pc = "download_episode"
    /\ ei > Len(considered)
    /\ fi' = fi + 1
    /\ ei' = 0
    /\ lastCall' = NoCall
    /\ diag' = {}
    /\ pc' = "download_feed"
    /\ UNCHANGED <<feeds, disk, now, file, refresh_frame, all, max_episodes,
                   li, files0, requests, attempt, kinds, exc>>

\* download_episode(entry, feed_dir) up to its first download_file call: an
\* entry whose file exists, or that has no audio/mpeg link, is left at once
DownloadEpisode ==
    /\ pc = "download_episode"
    /\ ei <= Len(considered)
    /\ IF exists(cur_path) \/ next_audio(cur_entry.links, 1) > Len(cur_entry.links)
       THEN /\ ei' = ei + 1
            /\ UNCHANGED <<li, pc>>
       ELSE /\ li' = next_audio(cur_entry.links, 1)
            /\ pc' = "download_file"
            /\ UNCHANGED ei
    /\ attempt' = 0
    /\ kinds' = {}
    /\ lastCall' = NoCall
    /\ diag' = {}
    /\ UNCHANGED <<feeds, disk, now, file, refresh_frame, all, max_episodes,
                   fi, files0, requests, exc>>

\* download_file has returned to the links loop of download_episode
links_loop(call) ==
    /\ lastCall' = call
    /\ attempt' = 0
    /\ kinds' = {}
    /\ IF next_audio(cur_entry.links, li + 1) > Len(cur_entry.links)
       THEN /\ ei' = ei + 1
            /\ li' = 0
            /\ pc' = "download_episode"
       ELSE /\ li' = next_audio(cur_entry.links, li + 1)
            /\ UNCHANGED <<ei, pc>>

\* the messages the running download_file call has printed so far
printed == IF attempt = 0 THEN {} ELSE diag

\* an attempt of download_file has raised: tenacity runs it again, or raises
\* RetryError, whose handler prints a message that reads link["title"]
attempt_failed(kind) ==
    LET msgs == printed \cup (IF kind = "timeout" THEN {"Getting timeout"} ELSE {})
    IN
    IF attempt + 1 >= stop_after_attempt
    THEN LET call == [fn |-> "download_file", attempts |-> attempt + 1,
                      result |-> "RetryError", kinds |-> kinds \cup {kind},
                      value |-> << >>]
         IN  IF "title" \in DOMAIN cur_link
             THEN /\ links_loop(call)
                  /\ diag' = msgs \cup {"Unable to download"}
                  /\ UNCHANGED exc
             ELSE \* KeyError out of the except block: nothing catches it
                  /\ lastCall' = call
                  /\ attempt' = 0
                  /\ kinds' = {}
                  /\ diag' = msgs
                  /\ exc' = "KeyError"
                  /\ pc' = "aborted"
                  /\ UNCHANGED <<ei, li>>
    ELSE /\ attempt' = attempt + 1
         /\ kinds' = kinds \cup {kind}
         /\ lastCall' = NoCall
         /\ diag' = msgs
         /\ UNCHANGED <<ei, li, pc, exc>>

issue_request == requests' = requests \cup {<<fi, ei, li>>}

\* requests.get raises (connection refused, connect timeout, ...)
DownloadFileConnectionError ==
    /\ pc = "download_file"
    /\ issue_request
    /\ attempt_failed("connection")
    /\ UNCHANGED <<feeds, disk, now, file, refresh_frame, all, max_episodes,
                   fi, files0>>

\* requests.get raises ReadTimeout: it is caught and printed, and the next
\* line reads the unbound `response`
DownloadFileReadTimeout ==
    /\ pc = "download_file"
    /\ issue_request
    /\ attempt_failed("timeout")
    /\ UNCHANGED <<feeds, disk, now, file, refresh_frame, all, max_episodes,
                   fi, files0>>

\* the response has an error status: raise_for_status raises HTTPError before
\* the file is opened; it is caught and printed and download_file returns
DownloadFileHTTPError ==
    /\ pc = "download_file"
    /\ issue_request
    /\ links_loop([fn |-> "download_file", attempts |-> attempt + 1,
                   result |-> "HTTPError", kinds |-> kinds \cup {"status"},
                   value |-> << >>])
    /\ diag' = printed \cup {"There was an issue downloading"}
    /\ UNCHANGED <<feeds, disk, now, file, refresh_frame, all, max_episodes,
                   fi, files0, exc>>

\* the file is opened for writing and the stream breaks before its end
DownloadFileStreamError ==
    /\ pc = "download_file"
    /\ issue_request
    /\ files' = files \cup {cur_path}
    /\ partial' = partial \cup {cur_path}
    /\ attempt_failed("stream")
    /\ UNCHANGED <<feeds, dirs, now, file, refresh_frame, all, max_episodes,
                   fi, files0>>

\* the whole body is written
DownloadFileOk ==
    /\ pc = "download_file"
    /\ issue_request
    /\ files' = files \cup {cur_path}
    /\ partial' = partial \ {cur_path}
    /\ links_loop([fn |-> "download_file", attempts |-> attempt + 1,
                   result |-> "ok", kinds |-> kinds, value |-> << >>])
    /\ diag' = printed
    /\ UNCHANGED <<feeds, dirs, now, file, refresh_frame, all, max_episodes,
                   fi, files0, exc>>

\* the process is killed while the body is written: the file stays as far
\* as it was written
Crash ==
    /\ pc = "download_file"
    /\ issue_request
    /\ files' = files \cup {cur_path}
    /\ partial' = partial \cup {cur_path}
    /\ attempt' = 0
    /\ kinds' = {}
    /\ lastCall' = NoCall
    /\ diag' = {}
    /\ exc' = "killed"
    /\ pc' = "aborted"
    /\ UNCHANGED <<feeds, dirs, now, file, refresh_frame, all, max_episodes,
                   fi, ei, li, files0>>

\* main's loop over feeds.all() is over: the process ends
MainReturn ==
    /\ pc = "download_feed"
    /\ fi > Len(all)
    /\ pc' = "done"
    /\ all' = << >>
    /\ max_episodes' = 0
    /\ fi' = 0
    /\ files0' = {}
    /\ requests' = {}
    /\ UNCHANGED <<feeds, disk, now, file, refresh_frame, ei, li,
                   retry_frame, exc>>

-----------------------------------------------------------------------------

Next ==
    \/ Main
    \/ ImportOpml
    \/ UpdateFeeds
    \/ ParseFeedRaise
    \/ ParseFeedReturn
    \/ UpdateFeedsReturn
    \/ DownloadFeed
    \/ DownloadFeedReturn
    \/ DownloadEpisode
    \/ DownloadFileConnectionError
    \/ DownloadFileReadTimeout
    \/ DownloadFileHTTPError
    \/ DownloadFileStreamError
    \/ DownloadFileOk
    \/ Crash
    \/ MainReturn

Spec == Init /\ [][Next]_vars

-----------------------------------------------------------------------------
(* download_feed called twice in a row on one feed record, with one limit,  *)
(* from any contents of the feed's directory                                 *)

TwiceFeeds ==
    { [title |-> TitleAB, url |-> "u3", entries |-> truncate(doc),
       last_updated |-> 0] : doc \in {DocLong, DocShort} }

TwicePaths(f) == { <<feed_dir(f), t>> : t \in {"e1", "e2", "e3"} }

InitTwice ==
    /\ \E f \in TwiceFeeds :
        /\ feeds = <<f>>
        /\ all = <<f, f>>
        /\ files \in SUBSET TwicePaths(f)
        /\ partial \in SUBSET files
        /\ dirs \in {{}, {feed_dir(f)}}
        /\ files # {} => dirs # {}
    /\ max_episodes \in 0..MaxLimit
    /\ now = 0
    /\ pc = "download_feed"
    /\ file = NoFile
    /\ force_updates = FALSE
    /\ unfresh_feeds = << >>
    /\ ri = 0
    /\ fi = 1
    /\ ei = 0
    /\ li = 0
    /\ attempt = 0
    /\ kinds = {}
    /\ lastCall = NoCall
    /\ exc = "none"
    /\ files0 = {}
    /\ requests = {}
    /\ diag = {}

NextTwice ==
    \/ DownloadFeed
    \/ DownloadFeedReturn
    \/ DownloadEpisode
    \/ DownloadFileConnectionError
    \/ DownloadFileReadTimeout
    \/ DownloadFileHTTPError
    \/ DownloadFileStreamError
    \/ DownloadFileOk
    \/ MainReturn

SpecTwice == InitTwice /\ [][NextTwice]_vars

-----------------------------------------------------------------------------
(* main's download loop over a store of two feeds with different titles,    *)
(* both refreshed, from an empty output directory                           *)

TitleA_B == <<"a", "_", "b">>

PairFeeds ==
    { [title |-> t, url |-> "u1", entries |-> truncate(doc), last_updated |-> 0] :
        t \in {TitleAB, TitleA_B, TitleC}, doc \in {DocLong, DocShort} }

InitPair ==
    /\ \E f \in PairFeeds, g \in PairFeeds :
        /\ f.title # g.title
        /\ feeds = <<f, g>>
        /\ all = <<f, g>>
    /\ files = {}
    /\ partial = {}
    /\ dirs = {}
    /\ max_episodes \in 0..MaxLimit
    /\ now = 0
    /\ pc = "download_feed"
    /\ file = NoFile
    /\ force_updates = FALSE
    /\ unfresh_feeds = << >>
    /\ ri = 0
    /\ fi = 1
    /\ ei = 0
    /\ li = 0
    /\ attempt = 0
    /\ kinds = {}
    /\ lastCall = NoCall
    /\ exc = "none"
    /\ files0 = {}
    /\ requests = {}
    /\ diag = {}

SpecPair == InitPair /\ [][NextTwice]_vars

-----------------------------------------------------------------------------
(* Properties *)

\* a download_feed call is running (or was cut short by an exception)
InDownloadFeed ==
    /\ fi >= 1
    /\ fi <= Len(all)
    /\ pc \in {"download_episode", "download_file"}
        \/ (pc = "aborted" /\ exc = "KeyError")

\* the entry has no link of type audio/mpeg
NoAudioLink(entry) ==
    \A k \in 1..Len(entry.links) : entry.links[k].type # "audio/mpeg"

\* the destination of entry i of the feed being downloaded
PathOf(i) == <<feed_dir(cur_feed), cur_feed.entries[i].title>>

\* C1: a feed fetch that failed on all of its attempts is contained to that
\* feed: it never ends the run (the remaining candidates are still fetched).
C1_FetchFailureContained ==
    (lastCall.fn = "parse_feed" /\ lastCall.result = "RetryError")
        => (pc # "aborted" /\ exc = "none")

\* C2: an episode download that failed on all of its attempts never ends the
\* run: download_episode returns and the loops go on.
C2_EpisodeFailureContained ==
    (lastCall.fn = "download_file" /\ lastCall.result = "RetryError")
        => (pc # "aborted" /\ exc = "none")

\* C3: no fetch or download is attempted more than 3 times, and one that
\* failed on every attempt was attempted exactly 3 times, whatever the failure.
C3_ExactlyThreeAttempts ==
    /\ attempt <= 3
    /\ lastCall.attempts <= 3
    /\ lastCall.result \in {"RetryError", "HTTPError"} => lastCall.attempts = 3

\* C4: without force, update_feeds selects exactly the stored feeds whose
\* last_updated is null or more than 24 hours (one day of ticks) before now;
\* with force, all stored feeds.
C4_StaleSelection ==
    (pc = "parse_feed" /\ ri = 1 /\ attempt = 0 /\ lastCall = NoCall)
        => unfresh_feeds =
            IF force_updates THEN feeds
            ELSE SelectSeq(feeds, LAMBDA doc :
                    \/ doc.last_updated = None
                    \/ now - doc.last_updated > TicksPerDay)

\* the second of two download_feed calls in a row is running or has ended
SecondRun ==
    /\ Len(all) = 2
    /\ all[1] = all[2]
    /\ (fi = 2 /\ InDownloadFeed) \/ (fi = 3 /\ pc = "download_feed")

\* the entries the two calls consider, and their destinations
TwiceConsidered == islice(all[1].entries, max_episodes)
TwicePath(i) == <<feed_dir(all[1]), all[1].entries[i].title>>

\* after the first call every considered entry that has an audio/mpeg link
\* has its destination file
FirstRunLeftAllFiles ==
    \A i \in 1..Len(TwiceConsidered) :
        NoAudioLink(TwiceConsidered[i]) \/ TwicePath(i) \in files0

\* C5 as stated: a second download_feed directly after a first, same feed and
\* limit, issues no request and leaves the set of files unchanged.
C5_SecondRunIdle == SecondRun => (requests = {} /\ files = files0)

\* C5 as amended: the second run issues no request and leaves the files
\* unchanged when the first run left a file for every considered entry that
\* has an audio/mpeg link; otherwise it requests only considered entries whose
\* file the first run did not leave, removes no file and adds only files of
\* the entries it requested.
C5_SecondRunIdleWhenFilesLeft ==
    /\ (SecondRun /\ FirstRunLeftAllFiles) => (requests = {} /\ files = files0)
    /\ SecondRun =>
        /\ \A r \in requests :
            /\ r[2] \in 1..Len(TwiceConsidered)
            /\ TwicePath(r[2]) \notin files0
        /\ files0 \subseteq files
        /\ files \ files0 \subseteq { TwicePath(r[2]) : r \in requests }

\* C5 witness: the second run has ended after a first run that left the file
\* of a considered entry with an audio/mpeg link
C5_Witness ==
    /\ SecondRun
    /\ fi = 3
    /\ FirstRunLeftAllFiles
    /\ \E i \in 1..Len(TwiceConsidered) :
        ~NoAudioLink(TwiceConsidered[i]) /\ TwicePath(i) \in files0 \ partial

\* C6: a download whose every attempt met an error status is attempted 3
\* times and ends exhausted (RetryError), like any other failure.
C6_StatusCountsAsFailure ==
    (lastCall.fn = "download_file" /\ lastCall.kinds = {"status"})
        => (lastCall.attempts = 3 /\ lastCall.result = "RetryError")

\* C7: after a successful fetch the stored entries of the refreshed feed are
\* the first min(fetched count, max_entries_per_feed) fetched entries, in the
\* fetched order, and nothing else.
C7_StoredEntriesArePrefix ==
    (lastCall.fn = "parse_feed" /\ lastCall.result = "ok") =>
        /\ \E j \in 1..Len(feeds) : feeds[j].title = unfresh_feeds[ri - 1].title
        /\ \A j \in 1..Len(feeds) :
            feeds[j].title = unfresh_feeds[ri - 1].title =>
                /\ Len(feeds[j].entries) =
                       Min(Len(lastCall.value), max_entries_per_feed)
                /\ \A i \in 1..Len(feeds[j].entries) :
                       feeds[j].entries[i] = lastCall.value[i]

\* C7 witness: a fetch returned more than max_entries_per_feed entries
C7_Witness ==
    /\ lastCall.fn = "parse_feed"
    /\ lastCall.result = "ok"
    /\ Len(lastCall.value) > max_entries_per_feed

\* C8: one download_feed call with limit L creates at most L files, issues
\* requests only for entries at positions 1..L whose destination was absent
\* when the call began, and starts the download of an entry only while its
\* destination is absent.
C8_LimitAndSkip ==
    InDownloadFeed =>
        /\ Cardinality(files \ files0) <= max_episodes
        /\ \A r \in requests :
            /\ r[1] = fi
            /\ r[2] \in 1..max_episodes
            /\ PathOf(r[2]) \notin files0
        /\ (pc = "download_file" /\ ~\E r \in requests : r[2] = ei)
            => cur_path \notin files

\* C8 witness: a call on a feed with more stored entries than the limit has
\* gone through its entries, skipping one whose file existed and downloading
\* another
C8_Witness ==
    /\ pc = "download_episode"
    /\ ei > Len(considered)
    /\ Len(cur_feed.entries) > max_episodes
    /\ \E i \in 1..max_episodes : PathOf(i) \in files0
    /\ \E r \in requests : PathOf(r[2]) \in files \ files0

\* C9: download_episode on an entry that has no audio/mpeg link (and no file
\* yet) issues no request, creates no file, raises nothing and hands over to
\* the next entry.
C9_NoAudioSkipped ==
    [][(/\ pc = "download_episode"
        /\ ei <= Len(considered)
        /\ NoAudioLink(cur_entry))
       => (/\ files' = files
           /\ partial' = partial
           /\ requests' = requests
           /\ exc' = "none"
           /\ pc' = "download_episode"
           /\ ei' = ei + 1)]_vars

\* C9 witness: the entry after one without audio/mpeg link is being downloaded
C9_Witness ==
    /\ pc = "download_file"
    /\ ei >= 2
    /\ NoAudioLink(cur_feed.entries[ei - 1])
    /\ PathOf(ei - 1) \notin files
    /\ ~\E r \in requests : r[2] = ei - 1

\* C10: import_opml(feeds, file) upserts exactly the feeds of the OPML
\* document at the path `file`.
C10_ImportsGivenFile ==
    [][pc = "import_opml" => feeds' = upsert_all(feeds, parse_opml(file))]_vars


\* the last url an OPML list gives for a title
RECURSIVE LastUrl(_, _)
LastUrl(docs, title) ==
    IF docs[Len(docs)].title = title THEN docs[Len(docs)].url
    ELSE LastUrl(SubSeq(docs, 1, Len(docs) - 1), title)

\* the titles of a sequence of feed records
Titles(table) == { table[i].title : i \in 1..Len(table) }

\* C11: import_opml upserts by title. A candidate title that is not stored is
\* inserted after the stored records; one that is stored overwrites its record
\* in place: url replaced, entries emptied, last_updated null. Records of other
\* titles are untouched. A record with null last_updated is selected by every
\* non-forced refresh, so the imported feeds are refreshed next.
C11_ImportOverwrites ==
    /\ [][pc = "import_opml" =>
            LET cands == OpmlDocs(opml_source(file)) IN
            /\ Titles(feeds') = Titles(feeds) \cup Titles(cands)
            /\ Len(feeds') = Cardinality(Titles(feeds'))
            /\ \A j \in 1..Len(feeds) : feeds'[j].title = feeds[j].title
            /\ \A j \in 1..Len(feeds') :
                IF feeds'[j].title \in Titles(cands)
                THEN /\ feeds'[j].url = LastUrl(cands, feeds'[j].title)
                     /\ feeds'[j].entries = << >>
                     /\ feeds'[j].last_updated = None
                ELSE feeds'[j] = feeds[j]]_vars
    /\ [](  (pc = "parse_feed" /\ ri = 1 /\ attempt = 0 /\ lastCall = NoCall
             /\ ~force_updates)
          => \A j \in 1..Len(feeds) :
                feeds[j].last_updated = None
                    => \E k \in 1..Len(unfresh_feeds) : unfresh_feeds[k] = feeds[j])

\* C11 witness: a non-forced refresh selects a feed that import has reset
\* (null last_updated, no entries) after an earlier run downloaded its episodes
C11_Witness ==
    /\ pc = "parse_feed"
    /\ ri = 1
    /\ ~force_updates
    /\ \E k \in 1..Len(unfresh_feeds) :
        /\ unfresh_feeds[k].last_updated = None
        /\ unfresh_feeds[k].entries = << >>
        /\ \E p \in files : p[1] = feed_dir(unfresh_feeds[k])


\* C12: a fetch or download abandoned after its attempts were exhausted has
\* had at least one failure message printed for it.
C12_ExhaustionReported == lastCall.result = "RetryError" => diag # {}


\* C13: in every reachable store no two stored feeds share a title, also
\* after importing a list that names one title twice.
C13_TitlesUnique ==
    \A i, j \in 1..Len(feeds) : i # j => feeds[i].title # feeds[j].title

\* an import of the list that names one title twice has ended
C13_Witness ==
    /\ pc = "update_feeds"
    /\ file # NoFile
    /\ \E i, j \in 1..Len(OpmlDocs(opml_source(file))) :
        /\ i # j
        /\ OpmlDocs(opml_source(file))[i].title = OpmlDocs(opml_source(file))[j].title
    /\ Len(feeds) = 2


\* the phase of a run the program counter is in
Phase(p) ==
    CASE p = "import_opml" -> 1
      [] p = "update_feeds" -> 2
      [] p = "parse_feed" -> 3
      [] p \in {"download_feed", "download_episode", "download_file"} -> 4
      [] OTHER -> 0

\* the stored record of the feed with this title
Stored(title) == feeds[CHOOSE j \in 1..Len(feeds) : feeds[j].title = title]

\* C14: within one run the phases are strictly ordered: the import ends
\* before any refresh, the refresh of candidate i ends before that of
\* candidate i+1 starts, every refresh ends before any download starts, and
\* download_feed works on the entries as stored after the refresh, in stored
\* order.
C14_PhasesOrdered ==
    \* a run never steps back to an earlier phase
    /\ [][\/ Phase(pc) = 0
          \/ Phase(pc') = 0
          \/ Phase(pc') >= Phase(pc)]_vars
    \* the import writes the store before the refresh phase only, the disk is
    \* written in the download phase only, the store is not written there
    /\ [][/\ Phase(pc) # 1 => Titles(feeds') = Titles(feeds)
          /\ Phase(pc) # 4 => UNCHANGED <<files, partial, dirs>>
          /\ Phase(pc) \in 1..3 => requests' = {}
          /\ Phase(pc) \notin {1, 3} => \A j \in 1..Len(feeds) :
                                 /\ j <= Len(feeds')
                                 /\ feeds'[j].title = feeds[j].title
                                    => /\ feeds'[j].entries = feeds[j].entries
                                       /\ feeds'[j].last_updated = feeds[j].last_updated
          /\ (Phase(pc) = 3 /\ Phase(pc') = 4) => ri > Len(unfresh_feeds)]_vars
    \* while candidate ri is fetched, the candidates before it are refreshed
    \* and the ones after it are untouched; nothing was downloaded yet
    /\ [](Phase(pc) = 3 =>
            /\ requests = {} /\ fi = 0
            /\ \A k \in 1..Len(unfresh_feeds) :
                IF k < ri
                THEN Stored(unfresh_feeds[k].title).last_updated = now
                ELSE Stored(unfresh_feeds[k].title) = unfresh_feeds[k])
    \* the refresh goes from candidate i to candidate i+1 only when the fetch
    \* of candidate i has ended
    /\ [][(pc = "parse_feed" /\ pc' = "parse_feed") =>
            \/ ri' = ri
            \/ ri' = ri + 1 /\ attempt' = 0 /\ lastCall'.result = "ok"]_vars
    \* the downloads read the store as the refresh left it, entry by entry
    /\ [](Phase(pc) = 4 => all = feeds)
    /\ [](InDownloadFeed => \A r \in requests : r[1] = fi /\ r[2] <= ei)
    /\ [][(Phase(pc) = 4 /\ Phase(pc') = 4) =>
            \/ fi' = fi /\ ei' \in {ei, ei + 1}
            \/ fi' = fi /\ ei = 0 /\ ei' = 1
            \/ fi' = fi + 1 /\ ei > Len(considered)]_vars

\* the second feed is being downloaded after both feeds were refreshed in
\* this run
C14_Witness ==
    /\ pc = "download_file"
    /\ fi = 2
    /\ \A j \in 1..Len(feeds) : feeds[j].last_updated = now /\ feeds[j].entries # << >>
    /\ \E r \in requests : r[1] = fi /\ r[2] = ei


\* C15: for one considered entry at most one audio/mpeg link is requested
\* in a run, also when the entry carries several such links.
C15_OneLinkPerEntry ==
    \A r1, r2 \in requests :
        (r1[1] = r2[1] /\ r1[2] = r2[2]) => r1[3] = r2[3]


\* C16: an entry whose destination file was left truncated by an interrupted
\* download is treated as already downloaded by every later download_feed:
\* no request is issued for it and the truncated file stays as it is.
C16_TruncatedFileSkipped ==
    \* download_episode leaves such an entry at once
    /\ [][(pc = "download_episode" /\ fi \in 1..Len(all)
              /\ ei <= Len(considered) /\ cur_path \in partial)
            => /\ ei' = ei + 1
               /\ pc' = "download_episode"
               /\ UNCHANGED <<files, partial, requests>>]_vars
    \* no request is for an entry whose file was there when download_feed began
    /\ [](InDownloadFeed => \A r \in requests : PathOf(r[2]) \notin files0)
    \* a truncated file is written again only by the download_feed call that
    \* made it
    /\ [][\A p \in partial :
            p \notin partial' => (pc = "download_file" /\ p = cur_path /\ p \notin files0)]_vars

\* an entry with an audio link was passed over because of the truncated file
\* an earlier run left
C16_Witness ==
    /\ pc = "download_episode"
    /\ fi \in 1..Len(all)
    /\ ei >= 2
    /\ ei - 1 <= Len(considered)
    /\ PathOf(ei - 1) \in partial \cap files0
    /\ ~NoAudioLink(cur_feed.entries[ei - 1])
    /\ \A r \in requests : r[2] # ei - 1


\* update_feeds has just selected its candidates
Selected == pc = "parse_feed" /\ ri = 1 /\ attempt = 0 /\ lastCall = NoCall

\* C17: a successful fetch sets the feed's last_updated to the current
\* instant, also when the fetched entries are empty or equal the stored
\* ones, and a non-forced update_feeds less than one day after a feed's
\* refresh does not select that feed.
C17_RefreshStampsFeed ==
    /\ [][(pc = "parse_feed" /\ ri' = ri + 1) =>
            \E j \in 1..Len(feeds') :
                /\ feeds'[j].title = unfresh_feeds[ri].title
                /\ feeds'[j].last_updated = now]_vars
    /\ []((Selected /\ ~force_updates) =>
            \A j \in 1..Len(feeds) :
                (feeds[j].last_updated # None
                    /\ now - feeds[j].last_updated < TicksPerDay)
                => \A k \in 1..Len(unfresh_feeds) :
                        unfresh_feeds[k].title # feeds[j].title)

\* half a day after a refresh that fetched no entries, the feed is not
\* selected
C17_Witness ==
    /\ Selected
    /\ ~force_updates
    /\ \E j \in 1..Len(feeds) :
        /\ feeds[j].entries = << >>
        /\ feeds[j].last_updated # None
        /\ now - feeds[j].last_updated = 1
        /\ \A k \in 1..Len(unfresh_feeds) : unfresh_feeds[k].title # feeds[j].title

\* C18: update_feeds never adds or removes a record and never changes a
\* title or a url; it changes entries and last_updated of the candidate
\* whose fetch has just succeeded and of no other record, and a fetch that
\* failed on all attempts leaves the store as it was.
C18_UpdateFrame ==
    [][Phase(pc) \in {2, 3} =>
        /\ Len(feeds') = Len(feeds)
        /\ \A j \in 1..Len(feeds) :
            /\ feeds'[j].title = feeds[j].title
            /\ feeds'[j].url = feeds[j].url
            /\ feeds'[j] # feeds[j] =>
                /\ pc = "parse_feed"
                /\ ri <= Len(unfresh_feeds)
                /\ feeds[j].title = unfresh_feeds[ri].title
                /\ lastCall'.fn = "parse_feed"
                /\ lastCall'.result = "ok"
        /\ lastCall'.result = "RetryError" => feeds' = feeds]_vars

\* a fetch has succeeded while the store holds a feed that was not selected
C18_Witness ==
    /\ pc = "parse_feed"
    /\ lastCall.fn = "parse_feed"
    /\ lastCall.result = "ok"
    /\ \E j \in 1..Len(feeds) :
        /\ \A k \in 1..Len(unfresh_feeds) : unfresh_feeds[k].title # feeds[j].title
        /\ feeds[j].last_updated # now
    /\ \E j \in 1..Len(feeds) : feeds[j].last_updated = now

\* C20: every stored feed holds at most max_entries_per_feed entries.
C20_StoreBounded ==
    \A j \in 1..Len(feeds) : Len(feeds[j].entries) <= max_entries_per_feed

\* a feed whose document had more entries is stored with exactly the limit
C20_Witness ==
    \E j \in 1..Len(feeds) :
        /\ Len(feeds[j].entries) = max_entries_per_feed
        /\ \E doc \in RemoteDocs(feeds[j].url) : Len(doc) > max_entries_per_feed


\* C19: feeds with distinct titles are downloaded into distinct directories,
\* so no considered entry of the second feed finds a file that was
\* downloaded for the first feed at its destination.
C19_DistinctDirectories ==
    (InDownloadFeed /\ fi = 2 /\ all[1].title # all[2].title) =>
        /\ feed_dir(all[1]) # feed_dir(all[2])
        /\ \A i \in 1..Len(considered) : PathOf(i) \notin files0

=============================================================================
